---- MODULE Spec2Model ----
(***************************************************************************)
(* A model of lvsfunc/denoise.py: quick_denoise and detail_mask.           *)
(*                                                                         *)
(* Each call is a sequential walk through the statements of the function;  *)
(* pc is the statement about to run.  External filters (KNLMeansCL,        *)
(* TNLMeans, DFTTest, SMDegrain, BM3D, rangemask, ...) are not computed:   *)
(* each invocation is appended to trace with the arguments it received,    *)
(* and the node it returns records the filter in its ops history.          *)
(***************************************************************************)
EXTENDS Integers, Sequences, FiniteSets, TLC

VARIABLES installed, pc, fn, args, cmode, sigma, kwargs, ref, planes,
          brz_a, brz_b, den_a, den_b, mask_a, mask_b, trace, raised, ret

vars == <<installed, pc, fn, args, cmode, sigma, kwargs, ref, planes,
          brz_a, brz_b, den_a, den_b, mask_a, mask_b, trace, raised, ret>>

\* ------------------------------------------------------------------ bounds

\* sbsize values passed in kwargs range over -MaxSb..MaxSb
MaxSb == 3

\* ------------------------------------------------------------- Python values

\* A str is the sequence of its characters, an int its value.
Str(cs) == [type |-> "str", chars |-> cs, val |-> 0]
IntV(n) == [type |-> "int", chars |-> <<>>, val |-> n]

UpperChars == <<"A","B","C","D","E","F","G","H","I","J","K","L","M",
                "N","O","P","Q","R","S","T","U","V","W","X","Y","Z">>
LowerChars == <<"a","b","c","d","e","f","g","h","i","j","k","l","m",
                "n","o","p","q","r","s","t","u","v","w","x","y","z">>

LowerChar(c) ==
    IF \E i \in 1..26 : UpperChars[i] = c
    THEN LowerChars[CHOOSE i \in 1..26 : UpperChars[i] = c]
    ELSE c

\* str.lower(): every cased character mapped to lower case
StrLower(s) == Str([i \in 1..Len(s.chars) |-> LowerChar(s.chars[i])])

\* A number is int or float; its value is the rational num/den (den > 0).
Num(t, n, d) == [type |-> t, num |-> n, den |-> d]
NoneV == Num("None", 0, 1)
PyInt(n) == Num("int", n, 1)
PyFloat(n, d) == Num("float", n, d)

NumEq(a, b) == a.num * b.den = b.num * a.den
NumLt(a, b) == a.num * b.den < b.num * a.den

\* Python truthiness of an Optional[float]: None, 0 and 0.0 are false
Truthy(x) == x.type # "None" /\ x.num # 0

\* int(x) of a rational p/q (q > 0): truncation toward zero
TruncDiv(p, q) == IF p >= 0 THEN p \div q ELSE -((-p) \div q)

\* ------------------------------------------------------------------ nodes

\* A clip or a plane of one.  family "NONE" is clip.format is None.  idx is
\* the plane index that a plane was taken from (-1: a whole clip); ops is the
\* sequence of filters applied to it.
Node(src, family, bits, w, h, ssw, ssh, idx, ops) ==
    [src |-> src, family |-> family, bits |-> bits, w |-> w, h |-> h,
     ssw |-> ssw, ssh |-> ssh, idx |-> idx, ops |-> ops]

NullNode == Node("none", "NONE", 0, 0, 0, 0, 0, -1, <<>>)

IsNone(n) == n.src = "none"

\* the result of an external filter applied to node n
Filtered(n, op) == [n EXCEPT !.ops = Append(@, op)]

\* an external call: the filter, the plane index of its input, its keyword
\* arguments, its ref argument (NullNode when it has none), its input node
Ev(op, plane, kw, r, input) ==
    [op |-> op, plane |-> plane, kw |-> kw, ref |-> r, input |-> input]

NoKw == [k \in {} |-> 0]

\* a dict literal merged with **kwargs
Merge(fixed, extra) ==
    [k \in DOMAIN fixed \cup DOMAIN extra |->
        IF k \in DOMAIN extra THEN extra[k] ELSE fixed[k]]

\* f(a=.., **kwargs) raises TypeError when kwargs repeats a keyword
Collides(fixed, extra) == DOMAIN fixed \cap DOMAIN extra # {}

\* ------------------------------------------------------------------ errors

Error(t, m) == [type |-> t, msg |-> m]

ErrMvsfunc == Error("ModuleNotFoundError", "quick_denoise: missing dependency 'mvsfunc'")
ErrQdFormat == Error("ValueError", "quick_denoise: input clip must be vs.YUV, vs.YCOCG, or vs.RGB")
ErrSbsize == Error("ValueError", "quick_denoise: '\"sbsize\" not specified'")
ErrHavsfunc == Error("ModuleNotFoundError", "quick_denoise: missing dependency 'havsfunc'")
ErrCmode == Error("ValueError", "quick_denoise: 'Unknown cmode'")
ErrDebandshit == Error("ModuleNotFoundError", "detail_mask: missing dependency 'debandshit'")
ErrDmFormat == Error("ValueError", "detail_mask: 'Variable-format clips not supported'")
\* raised by the interpreter, not by a raise statement of the module
ErrNoLower == Error("AttributeError", "'int' object has no attribute 'lower'")
ErrDupKw == Error("TypeError", "got multiple values for keyword argument")

\* ----------------------------------------------------------- the environment

Packages == {"mvsfunc", "havsfunc", "debandshit"}

ImportOk_Unchecked(m, inst) == TRUE

\* import m succeeds iff the package is installed
ImportOk(m, inst) == m \in inst

\* ------------------------------------------------------------ vsutil helpers

\* vsutil.split(clip): one GRAY node per plane, chroma planes subsampled
PlaneOf(c, i) ==
    Node(c.src, "GRAY", c.bits,
         IF i = 0 THEN c.w ELSE c.w \div (2 ^ c.ssw),
         IF i = 0 THEN c.h ELSE c.h \div (2 ^ c.ssh),
         0, 0, i, <<>>)

split(c) == [i \in 1..3 |-> PlaneOf(c, i - 1)]

\* vsutil.join(planes, family=vs.YUV) is called with planes alone, so the
\* family of the result is the default of the family parameter
JoinFamily == "YUV"

join(ps) ==
    [family |-> JoinFamily, bits |-> ps[1].bits, w |-> ps[1].w, h |-> ps[1].h,
     ssw |-> IF ps[2].w = ps[1].w THEN 0 ELSE 1,
     ssh |-> IF ps[2].h = ps[1].h THEN 0 ELSE 1,
     planes |-> ps]

\* ------------------------------------------------------------- quick_denoise

DefaultSigma == 2
DefaultCmode == Str(<<"k","n","l","m">>)

\* the parameters of quick_denoise that a keyword binds to, never **kwargs
NamedParams == {"clip", "ref", "cmode", "sigma"}

\* sigma as bound from the call's keywords
BindSigma(kw) == IF "sigma" \in DOMAIN kw THEN kw["sigma"] ELSE DefaultSigma

\* **kwargs: the call's keywords that name no parameter
BindKwargs(kw) == [k \in DOMAIN kw \ NamedParams |-> kw[k]]

BindCmode(m) == IF m.type = "omitted" THEN DefaultCmode ELSE m

\* clip.format is None or clip.format.color_family not in (YUV, YCOCG, RGB)
ValidFamilies == {"YUV", "YCOCG", "RGB"}
FormatOk_AnyFamily(c) == c.family # "NONE"
FormatOk(c) == c.family # "NONE" /\ c.family \in ValidFamilies

\* the alias lists of the if/elif chain; an int never equals a str
KnlmAliases == {IntV(1), Str(<<"k","n","l","m">>),
                Str(<<"k","n","l","m","e","a","n","s","c","l">>)}
TnlmAliases == {IntV(2), Str(<<"t","n","l","m">>),
                Str(<<"t","n","l","m","e","a","n","s">>)}
DftAliases == {IntV(3), Str(<<"d","f","t">>),
               Str(<<"d","f","t","t","e","s","t">>)}
SmdAliases == {IntV(4), Str(<<"s","m","d">>),
               Str(<<"s","m","d","e","g","r","a","i","n">>)}

\* which branch of the if/elif chain a (lowered) cmode takes
Branch(m) ==
    IF m \in KnlmAliases THEN "knlm"
    ELSE IF m \in TnlmAliases THEN "tnlm"
    ELSE IF m \in DftAliases THEN "dft"
    ELSE IF m \in SmdAliases THEN "smd"
    ELSE "unknown"

ChromaFilter_CopyPaste(b) ==
    CASE b = "knlm" -> "KNLMeansCL"
      [] b = "tnlm" -> "KNLMeansCL"
      [] b = "dft" -> "DFTTest"
      [] b = "smd" -> "SMDegrain"
      [] OTHER -> "none"

\* the chroma filter each branch calls
ChromaFilter(b) ==
    CASE b = "knlm" -> "KNLMeansCL"
      [] b = "tnlm" -> "TNLMeans"
      [] b = "dft" -> "DFTTest"
      [] b = "smd" -> "SMDegrain"
      [] OTHER -> "none"

Sosize_Floor(sbsize) == (sbsize * 3) \div 4

\* int(sbsize * 0.75)
Sosize(sbsize) == TruncDiv(sbsize * 3, 4)

\* the keyword arguments each branch writes out before **kwargs
FixedArgs(b, kw) ==
    CASE b = "knlm" -> [d |-> 3, a |-> 2]
      [] b = "tnlm" -> [ax |-> 2, ay |-> 2, az |-> 2]
      [] b = "dft" -> [sosize |-> Sosize(kw["sbsize"])]
      [] b = "smd" -> [prefilter |-> 3]
      [] OTHER -> NoKw

LumaRef_OwnPlane(r, ps) == ps[1]

\* ref = ref or planes[0]; a VideoNode is false only when it has no frames,
\* which no clip passed as ref has
LumaRef(r, ps) == IF IsNone(r) THEN ps[1] ELSE r

\* the keyword arguments of mvf.BM3D
Bm3dArgs(s) == [sigma |-> s, psample |-> 0, radius1 |-> 1]

Raise(e) ==
    /\ raised' = Append(raised, e)
    /\ pc' = "raised"

\* the inputs of a call
Clip(family, ssw, ssh) == Node("clip", family, 8, 4, 4, ssw, ssh, -1, <<>>)
QdClips == {Clip("YUV", 1, 1), Clip("YUV", 0, 0), Clip("YCOCG", 0, 0),
            Clip("RGB", 0, 0), Clip("GRAY", 0, 0), Clip("NONE", 0, 0)}
RefClip == Node("ref", "GRAY", 8, 4, 4, 0, 0, -1, <<>>)
QdRefs == {NullNode, RefClip}
Omitted == [type |-> "omitted", chars |-> <<>>, val |-> 0]
Cmodes == {Omitted,
           Str(<<"k","n","l","m">>), Str(<<"K","N","L","M">>),
           Str(<<"K","N","L","M","e","a","n","s","C","L">>),
           Str(<<"t","n","l","m">>), Str(<<"T","N","L","M","e","a","n","s">>),
           Str(<<"d","f","t">>), Str(<<"D","f","T">>),
           Str(<<"D","F","T","T","e","s","t">>),
           Str(<<"s","m","d">>), Str(<<"S","M","D","e","g","r","a","i","n">>),
           Str(<<"b","m","3","d">>), Str(<<"1">>), Str(<<>>)}
          \cup {IntV(n) : n \in 0..5}
KwValues(k) ==
    CASE k = "sigma" -> {3}
      [] k = "sbsize" -> (-MaxSb)..MaxSb
      [] OTHER -> {1}
CallKeys == {"sigma", "sbsize", "sosize", "d"}
CallKws == UNION {{f \in [ks -> (-MaxSb)..MaxSb] : \A k \in ks : f[k] \in KwValues(k)}
                  : ks \in SUBSET CallKeys}

NoArgs == [clip |-> NullNode, ref |-> NullNode, cmode |-> Omitted, kw |-> NoKw,
           sigma |-> NoneV, brz_a |-> NoneV, brz_b |-> NoneV]

Init ==
    /\ installed \in SUBSET Packages
    /\ pc = "idle"
    /\ fn = "none"
    /\ args = NoArgs
    /\ cmode = Omitted
    /\ sigma = NoneV
    /\ kwargs = NoKw
    /\ ref = NullNode
    /\ planes = <<>>
    /\ brz_a = NoneV
    /\ brz_b = NoneV
    /\ den_a = NullNode
    /\ den_b = NullNode
    /\ mask_a = NullNode
    /\ mask_b = NullNode
    /\ trace = <<>>
    /\ raised = <<>>
    /\ ret = NullNode

\* quick_denoise(clip, ref, cmode, sigma, **kwargs): the parameters are bound
CallQuickDenoise ==
    /\ pc = "idle"
    /\ \E c \in QdClips, r \in QdRefs, m \in Cmodes, kw \in CallKws :
        /\ args' = [NoArgs EXCEPT !.clip = c, !.ref = r, !.cmode = BindCmode(m),
                                  !.kw = kw]
        /\ cmode' = BindCmode(m)
        /\ sigma' = PyInt(BindSigma(kw))
        /\ kwargs' = BindKwargs(kw)
        /\ ref' = r
    /\ fn' = "quick_denoise"
    /\ pc' = "qd_import"
    /\ UNCHANGED <<installed, planes, brz_a, brz_b, den_a, den_b, mask_a, mask_b, trace, raised, ret>>

\* lines 58-61: import mvsfunc
QdImport ==
    /\ pc = "qd_import"
    /\ IF ImportOk("mvsfunc", installed)
       THEN pc' = "qd_format" /\ UNCHANGED raised
       ELSE Raise(ErrMvsfunc)
    /\ UNCHANGED <<installed, fn, args, cmode, sigma, kwargs, ref, planes,
                   brz_a, brz_b, den_a, den_b, mask_a, mask_b, trace, ret>>

\* lines 63-64: the format check
QdFormat ==
    /\ pc = "qd_format"
    /\ IF FormatOk(args.clip)
       THEN pc' = "qd_split" /\ UNCHANGED raised
       ELSE Raise(ErrQdFormat)
    /\ UNCHANGED <<installed, fn, args, cmode, sigma, kwargs, ref, planes,
                   brz_a, brz_b, den_a, den_b, mask_a, mask_b, trace, ret>>

\* line 66: planes = split(clip)
QdSplit ==
    /\ pc = "qd_split"
    /\ planes' = split(args.clip)
    /\ trace' = Append(trace, Ev("split", -1, NoKw, NullNode, args.clip))
    /\ pc' = "qd_lower"
    /\ UNCHANGED <<installed, fn, args, cmode, sigma, kwargs, ref,
                   brz_a, brz_b, den_a, den_b, mask_a, mask_b, raised, ret>>

\* line 67: cmode = cmode.lower(); an int has no lower()
QdLower ==
    /\ pc = "qd_lower"
    /\ IF cmode.type = "str"
       THEN cmode' = StrLower(cmode) /\ pc' = "qd_dispatch" /\ UNCHANGED raised
       ELSE Raise(ErrNoLower) /\ UNCHANGED cmode
    /\ UNCHANGED <<installed, fn, args, sigma, kwargs, ref, planes,
                   brz_a, brz_b, den_a, den_b, mask_a, mask_b, trace, ret>>

\* lines 69, 72, 75-77, 80-86, 90-91: the if/elif chain up to the first
\* chroma call: the sbsize lookup of the dft branch, the havsfunc import of
\* the smd branch, the raise of the else branch
QdDispatch ==
    /\ pc = "qd_dispatch"
    /\ LET b == Branch(cmode) IN
        CASE b = "unknown" -> Raise(ErrCmode)
          [] b = "dft" /\ "sbsize" \notin DOMAIN kwargs -> Raise(ErrSbsize)
          [] b = "smd" /\ ~ImportOk("havsfunc", installed) -> Raise(ErrHavsfunc)
          [] OTHER -> pc' = "qd_chroma1" /\ UNCHANGED raised
    /\ UNCHANGED <<installed, fn, args, cmode, sigma, kwargs, ref, planes,
                   brz_a, brz_b, den_a, den_b, mask_a, mask_b, trace, ret>>

\* planes[i] = <chroma filter>(planes[i], <fixed arguments>, **kwargs)
ChromaCall(i, next) ==
    LET b == Branch(cmode)
        fixed == FixedArgs(b, kwargs)
    IN  IF Collides(fixed, kwargs)
        THEN Raise(ErrDupKw) /\ UNCHANGED <<planes, trace>>
        ELSE /\ trace' = Append(trace, Ev(ChromaFilter(b), i, Merge(fixed, kwargs),
                                          NullNode, planes[i + 1]))
             /\ planes' = [planes EXCEPT ![i + 1] = Filtered(@, ChromaFilter(b))]
             /\ pc' = next
             /\ UNCHANGED raised

\* lines 70, 73, 78, 88: the chroma filter on planes[1]
QdChroma1 ==
    /\ pc = "qd_chroma1"
    /\ ChromaCall(1, "qd_chroma2")
    /\ UNCHANGED <<installed, fn, args, cmode, sigma, kwargs, ref,
                   brz_a, brz_b, den_a, den_b, mask_a, mask_b, ret>>

\* lines 71, 74, 79, 89: the chroma filter on planes[2]
QdChroma2 ==
    /\ pc = "qd_chroma2"
    /\ ChromaCall(2, "qd_luma")
    /\ UNCHANGED <<installed, fn, args, cmode, sigma, kwargs, ref,
                   brz_a, brz_b, den_a, den_b, mask_a, mask_b, ret>>

\* lines 93-94: ref = ref or planes[0]; planes[0] = mvf.BM3D(...)
QdLuma ==
    /\ pc = "qd_luma"
    /\ ref' = LumaRef(ref, planes)
    /\ trace' = Append(trace, Ev("BM3D", 0, Bm3dArgs(sigma.num),
                                 LumaRef(ref, planes), planes[1]))
    /\ planes' = [planes EXCEPT ![1] = Filtered(@, "BM3D")]
    /\ pc' = "qd_join"
    /\ UNCHANGED <<installed, fn, args, cmode, sigma, kwargs,
                   brz_a, brz_b, den_a, den_b, mask_a, mask_b, raised, ret>>

\* line 95: return join(planes)
QdJoin ==
    /\ pc = "qd_join"
    /\ ret' = join(planes)
    /\ pc' = "returned"
    /\ UNCHANGED <<installed, fn, args, cmode, sigma, kwargs, ref, planes,
                   brz_a, brz_b, den_a, den_b, mask_a, mask_b, trace, raised>>

\* --------------------------------------------------------------- detail_mask

DefaultRad == 3
DefaultRadc == 2
FloatDepth == 32

\* vsutil.get_depth(clip): clip.format.bits_per_sample
get_depth(c) == c.bits

\* vsutil.get_y(clip): plane 0
get_y(c) == [c EXCEPT !.family = "GRAY", !.idx = 0, !.ssw = 0, !.ssh = 0]

\* vsutil.depth(clip, bits): the clip at another bit depth
depth(c, b) == IF c.bits = b THEN c ELSE [Filtered(c, "depth") EXCEPT !.bits = b]

\* vsutil.scale_value's peak value of a depth: 1 for float, else the limited
\* (default range_in, range_out) luma peak
LimitedPeak == 219
PeakValue(bits) == IF bits = FloatDepth THEN 1 ELSE LimitedPeak * 2 ^ (bits - 8)

\* vsutil.scale_value(value, input_depth, output_depth): unchanged between
\* equal depths, else value * (output_peak / input_peak), a float
scale_value(v, in, out) ==
    IF in = out THEN v
    ELSE PyFloat(v.num * PeakValue(out), v.den * PeakValue(in))

\* lines 149-158, for one threshold
ScaleThreshold(brz, c) ==
    IF get_depth(c) # FloatDepth
    THEN IF brz.type = "float" THEN scale_value(brz, FloatDepth, get_depth(c)) ELSE brz
    ELSE IF brz.type = "int" THEN scale_value(brz, get_depth(c), FloatDepth) ELSE brz

BlurWanted_NotNone(s) == s.type # "None"

\* the condition of "... if sigma else clip"
BlurWanted(s) == Truthy(s)

NumKw(name, x) == [k \in {name \o "_num", name \o "_den"} |->
                      IF k = name \o "_num" THEN x.num ELSE x.den]

\* util.quick_resample(clip, partial(core.bilateral.Gaussian, sigma=sigma))
GaussianEv(c, s) == Ev("quick_resample(bilateral.Gaussian)", -1, NumKw("sigma", s), NullNode, c)

DmClip(family, bits) == Node("clip", family, bits, 4, 4, 1, 1, -1, <<>>)
DmClips == {DmClip("YUV", 8), DmClip("YUV", 16), DmClip("YUV", 32),
            DmClip("GRAY", 10), DmClip("NONE", 0)}
DmSigmas == {NoneV, PyInt(0), PyFloat(0, 1), PyFloat(3, 2), PyInt(2)}
Thresholds == {PyFloat(5, 1000), PyFloat(1, 2), PyInt(0), PyInt(1), PyInt(128)}

\* detail_mask(clip, sigma, rad, radc, brz_a, brz_b)
CallDetailMask ==
    /\ pc = "idle"
    /\ \E c \in DmClips, s \in DmSigmas, a \in Thresholds, b \in Thresholds :
        /\ args' = [NoArgs EXCEPT !.clip = c, !.sigma = s, !.brz_a = a, !.brz_b = b]
        /\ sigma' = s
        /\ brz_a' = a
        /\ brz_b' = b
    /\ fn' = "detail_mask"
    /\ pc' = "dm_import"
    /\ UNCHANGED <<installed, cmode, kwargs, ref, planes, den_a, den_b,
                   mask_a, mask_b, trace, raised, ret>>

\* lines 139-142: from debandshit import rangemask
DmImport ==
    /\ pc = "dm_import"
    /\ IF ImportOk("debandshit", installed)
       THEN pc' = "dm_format" /\ UNCHANGED raised
       ELSE Raise(ErrDebandshit)
    /\ UNCHANGED <<installed, fn, args, cmode, sigma, kwargs, ref, planes,
                   brz_a, brz_b, den_a, den_b, mask_a, mask_b, trace, ret>>

\* lines 144-145: if clip.format is None
DmFormat ==
    /\ pc = "dm_format"
    /\ IF args.clip.family # "NONE"
       THEN pc' = "dm_scale" /\ UNCHANGED raised
       ELSE Raise(ErrDmFormat)
    /\ UNCHANGED <<installed, fn, args, cmode, sigma, kwargs, ref, planes,
                   brz_a, brz_b, den_a, den_b, mask_a, mask_b, trace, ret>>

\* lines 149-158: the thresholds are rescaled
DmScale ==
    /\ pc = "dm_scale"
    /\ brz_a' = ScaleThreshold(brz_a, args.clip)
    /\ brz_b' = ScaleThreshold(brz_b, args.clip)
    /\ pc' = "dm_blur"
    /\ UNCHANGED <<installed, fn, args, cmode, sigma, kwargs, ref, planes,
                   den_a, den_b, mask_a, mask_b, trace, raised, ret>>

\* lines 161-164: den_a and den_b
DmBlur ==
    /\ pc = "dm_blur"
    /\ IF BlurWanted(sigma)
       THEN /\ den_a' = Filtered(args.clip, "Gaussian")
            /\ den_b' = Filtered(args.clip, "Gaussian")
            /\ trace' = trace \o <<GaussianEv(args.clip, sigma), GaussianEv(args.clip, sigma)>>
       ELSE /\ den_a' = args.clip
            /\ den_b' = args.clip
            /\ UNCHANGED trace
    /\ pc' = "dm_mask_a"
    /\ UNCHANGED <<installed, fn, args, cmode, sigma, kwargs, ref, planes,
                   brz_a, brz_b, mask_a, mask_b, raised, ret>>

\* lines 166-169: the range mask, binarized at brz_a
DmMaskA ==
    /\ pc = "dm_mask_a"
    /\ LET y == IF args.clip.bits < FloatDepth THEN depth(get_y(den_a), 16) ELSE get_y(den_a)
           rm == Filtered(y, "rangemask")
           back == depth(rm, args.clip.bits)
       IN /\ mask_a' = Filtered(back, "Binarize")
          /\ trace' = trace \o
                <<Ev("rangemask", 0, [rad |-> DefaultRad, radc |-> DefaultRadc], NullNode, y),
                  Ev("Binarize", 0, NumKw("threshold", brz_a), NullNode, back)>>
    /\ pc' = "dm_mask_b"
    /\ UNCHANGED <<installed, fn, args, cmode, sigma, kwargs, ref, planes,
                   brz_a, brz_b, den_a, den_b, mask_b, raised, ret>>

\* lines 171-172: the edge mask, binarized at brz_b
DmMaskB ==
    /\ pc = "dm_mask_b"
    /\ LET pw == Filtered(get_y(den_b), "Prewitt")
       IN /\ mask_b' = Filtered(pw, "Binarize")
          /\ trace' = trace \o
                <<Ev("Prewitt", 0, NoKw, NullNode, get_y(den_b)),
                  Ev("Binarize", 0, NumKw("threshold", brz_b), NullNode, pw)>>
    /\ pc' = "dm_merge"
    /\ UNCHANGED <<installed, fn, args, cmode, sigma, kwargs, ref, planes,
                   brz_a, brz_b, den_a, den_b, mask_a, raised, ret>>

\* lines 174-176: the maximum of the two masks, then removegrain 22 and 11
DmMerge ==
    /\ pc = "dm_merge"
    /\ LET m == Filtered(mask_a, "Expr(x y max)")
           m22 == Filtered(m, "removegrain")
       IN /\ ret' = Filtered(m22, "removegrain")
          /\ trace' = trace \o
                <<Ev("Expr(x y max)", 0, NoKw, mask_b, mask_a),
                  Ev("removegrain", 0, [mode |-> 22], NullNode, m),
                  Ev("removegrain", 0, [mode |-> 11], NullNode, m22)>>
    /\ pc' = "returned"
    /\ UNCHANGED <<installed, fn, args, cmode, sigma, kwargs, ref, planes,
                   brz_a, brz_b, den_a, den_b, mask_a, mask_b, raised>>

Next ==
    \/ CallQuickDenoise
    \/ QdImport
    \/ QdFormat
    \/ QdSplit
    \/ QdLower
    \/ QdDispatch
    \/ QdChroma1
    \/ QdChroma2
    \/ QdLuma
    \/ QdJoin
    \/ CallDetailMask
    \/ DmImport
    \/ DmFormat
    \/ DmScale
    \/ DmBlur
    \/ DmMaskA
    \/ DmMaskB
    \/ DmMerge

Spec == Init /\ [][Next]_vars

\* ================================================================== claims

Done == pc \in {"raised", "returned"}
InQd == fn = "quick_denoise"
InDm == fn = "detail_mask"

ChromaOps == {"KNLMeansCL", "TNLMeans", "DFTTest", "SMDegrain"}
EvIdx(ops) == {i \in DOMAIN trace : trace[i].op \in ops}
Called(op, plane) == \E i \in DOMAIN trace : trace[i].op = op /\ trace[i].plane = plane

\* the documented aliases: the strings in any letter case, the integers 1..4
DocFilter(m) ==
    LET l == IF m.type = "str" THEN StrLower(m).chars ELSE <<>>
        n == IF m.type = "int" THEN m.val ELSE 0
    IN  IF n = 1 \/ l \in {<<"k","n","l","m">>, <<"k","n","l","m","e","a","n","s","c","l">>}
            THEN "KNLMeansCL"
        ELSE IF n = 2 \/ l \in {<<"t","n","l","m">>, <<"t","n","l","m","e","a","n","s">>}
            THEN "TNLMeans"
        ELSE IF n = 3 \/ l \in {<<"d","f","t">>, <<"d","f","t","t","e","s","t">>}
            THEN "DFTTest"
        ELSE IF n = 4 \/ l \in {<<"s","m","d">>, <<"s","m","d","e","g","r","a","i","n">>}
            THEN "SMDegrain"
        ELSE "none"

MvsfuncThere == "mvsfunc" \in installed
HavsfuncThere == "havsfunc" \in installed
FamilyAccepted == args.clip.family \in {"YUV", "YCOCG", "RGB"}
SbsizeGiven == "sbsize" \in DOMAIN args.kw
CallerSigma == IF "sigma" \in DOMAIN args.kw THEN args.kw["sigma"] ELSE 2
\* the keywords of the call that repeat one the selected branch writes out
RepeatsKeyword ==
    \/ DocFilter(args.cmode) = "KNLMeansCL" /\ "d" \in DOMAIN args.kw
    \/ DocFilter(args.cmode) = "DFTTest" /\ "sosize" \in DOMAIN args.kw
\* plane 0 of the input clip as split leaves it
OwnLuma(n) == n.src = "clip" /\ n.idx = 0 /\ n.ops = <<>>

\* C1: every supported cmode alias (the strings in any case, with sbsize
\* given for dft and havsfunc installed for smd, and the integers 1..4)
\* applies its filter family to chroma planes 1 and 2; every other cmode
\* fails with the unknown-mode error and nothing else.
C1_ModeDispatch ==
    (InQd /\ Done /\ MvsfuncThere /\ FamilyAccepted /\ ~RepeatsKeyword) =>
        LET f == DocFilter(args.cmode) IN
        /\ (f = "none" => raised = <<ErrCmode>>)
        /\ (/\ f # "none"
            /\ f = "DFTTest" => SbsizeGiven
            /\ f = "SMDegrain" => HavsfuncThere)
           => /\ pc = "returned"
              /\ Called(f, 1)
              /\ Called(f, 2)
              /\ \A i \in EvIdx(ChromaOps) : trace[i].op = f

\* C2 as stated: every clip of undetermined format or of a family other than
\* YUV, YCOCG, RGB fails with the format error, for every cmode and kwargs,
\* before the split and before any filter.
C2_AlwaysFormatError ==
    (InQd /\ Done /\ ~FamilyAccepted) =>
        /\ raised = <<ErrQdFormat>>
        /\ trace = <<>>
        /\ planes = <<>>

\* C2, amended: with mvsfunc importable, every clip of undetermined format or
\* of a family other than YUV, YCOCG, RGB fails with the format error, for
\* every cmode and kwargs; no such clip is ever split or filtered.
C2_FormatRejection ==
    (InQd /\ ~FamilyAccepted) =>
        /\ trace = <<>>
        /\ planes = <<>>
        /\ pc \in {"qd_import", "qd_format", "raised"}
        /\ (Done /\ MvsfuncThere) => raised = <<ErrQdFormat>>

C2_Witness ==
    /\ InQd /\ pc = "raised" /\ raised = <<ErrQdFormat>>
    /\ args.clip.family = "GRAY" /\ args.cmode.type = "int"
    /\ SbsizeGiven

\* C3: DFT mode (dft, dfttest in any case, or 3) without sbsize in kwargs
\* always fails with the missing-parameter error, before DFTTest and BM3D
\* are invoked, and the missing-parameter error is reported for this case only.
C3_MissingSbsize ==
    (InQd /\ Done /\ MvsfuncThere /\ FamilyAccepted) =>
        /\ (DocFilter(args.cmode) = "DFTTest" /\ ~SbsizeGiven)
             <=> (raised = <<ErrSbsize>>)
        /\ (raised = <<ErrSbsize>>) => EvIdx(ChromaOps \cup {"BM3D"}) = {}

\* C4 as stated: the sosize passed to DFTTest is floor(S * 0.75) for every
\* integer sbsize S, the same on planes 1 and 2.
C4_SosizeIsFloor ==
    \A i \in EvIdx({"DFTTest"}) :
        LET S == args.kw["sbsize"]
            v == trace[i].kw["sosize"]
        IN  4 * v <= 3 * S /\ 3 * S < 4 * v + 4

\* C4, amended: the sosize passed to DFTTest is S * 0.75 truncated toward
\* zero (floor for S >= 0, ceiling for S < 0), the same on planes 1 and 2,
\* and a DFT call that returns has passed it on both planes.
C4_SosizeTruncates ==
    /\ \A i \in EvIdx({"DFTTest"}) :
        LET S == args.kw["sbsize"]
            v == trace[i].kw["sosize"]
        IN  /\ S >= 0 => (4 * v <= 3 * S /\ 3 * S < 4 * v + 4)
            /\ S < 0 => (4 * v >= 3 * S /\ 3 * S > 4 * v - 4)
            /\ trace[i].kw["sbsize"] = S
    /\ \A i, j \in EvIdx({"DFTTest"}) : trace[i].kw["sosize"] = trace[j].kw["sosize"]
    /\ (InQd /\ pc = "returned" /\ DocFilter(args.cmode) = "DFTTest")
          => Called("DFTTest", 1) /\ Called("DFTTest", 2)

C4_Witness ==
    /\ InQd /\ pc = "returned"
    /\ SbsizeGiven /\ args.kw["sbsize"] = -3
    /\ \E i \in EvIdx({"DFTTest"}) : trace[i].plane = 2 /\ trace[i].kw["sosize"] = -2

\* C5: the clip returned has three planes in the order 0, 1, 2 and the plane
\* count, dimensions and color family of the input clip.
C5_FormatPreserved ==
    (InQd /\ pc = "returned") =>
        /\ Len(ret.planes) = 3
        /\ \A i \in 1..3 : ret.planes[i].idx = i - 1
        /\ ret.w = args.clip.w /\ ret.h = args.clip.h
        /\ ret.ssw = args.clip.ssw /\ ret.ssh = args.clip.ssh
        /\ ret.family = args.clip.family

AfterScale == InDm /\ pc \in {"dm_blur", "dm_mask_a", "dm_mask_b", "dm_merge", "returned"}
AfterBlur == InDm /\ pc \in {"dm_mask_a", "dm_mask_b", "dm_merge", "returned"}
BinarizeAt(i) ==
    Num("float", trace[i].kw["threshold_num"], trace[i].kw["threshold_den"])

\* the rescaling C6 states of one threshold, given as g and used as u
RescaledAsStated(g, u) ==
    LET bits == args.clip.bits IN
    /\ (bits # 32 /\ g.type = "float") =>
          NumEq(u, Num("float", g.num * PeakValue(bits), g.den))
    /\ (bits # 32 /\ g.type = "int") => u = g
    /\ (bits = 32 /\ g.type = "float") => u = g
    /\ (bits = 32 /\ g.type = "int" /\ g.num # 0) => (~NumEq(u, g) /\ ~NumLt(PyInt(1), u))
    /\ (bits = 8 /\ g = PyFloat(5, 1000)) => (NumLt(PyInt(0), u) /\ NumLt(u, PyInt(255)))

\* C6: each of brz_a and brz_b is, on a clip that is not 32-bit, rescaled
\* from the 32-bit range to the clip's depth when a float and unchanged when
\* an int; on a 32-bit clip rescaled up to the 32-bit range when an int and
\* unchanged when a float; 0.005 on an 8-bit clip lies strictly between 0
\* and 255.
C6_ThresholdRescaling ==
    AfterScale =>
        /\ RescaledAsStated(args.brz_a, brz_a)
        /\ RescaledAsStated(args.brz_b, brz_b)

\* C7: a call that returns has run BM3D exactly once, last, on plane 0 as
\* split left it, with the caller's sigma and radius1 = 1, after the chroma
\* filter on planes 1 and 2; its ref is the caller's ref when one is given
\* and else that same plane 0; no chroma filter ever receives ref or sigma.
C7_LumaHandling ==
    /\ \A i \in EvIdx(ChromaOps) :
          /\ "sigma" \notin DOMAIN trace[i].kw
          /\ "ref" \notin DOMAIN trace[i].kw
          /\ IsNone(trace[i].ref)
    /\ Cardinality(EvIdx({"BM3D"})) <= 1
    /\ (InQd /\ pc = "returned") =>
          LET n == Len(trace) IN
          /\ EvIdx({"BM3D"}) = {n}
          /\ trace[n].plane = 0
          /\ OwnLuma(trace[n].input)
          /\ trace[n].kw["sigma"] = CallerSigma
          /\ trace[n].kw["radius1"] = 1
          /\ trace[n].ref = IF IsNone(args.ref) THEN trace[n].input ELSE args.ref
          /\ EvIdx(ChromaOps) = {n - 2, n - 1}
          /\ trace[n - 2].plane = 1
          /\ trace[n - 1].plane = 2

C7_Witness ==
    /\ InQd /\ pc = "returned"
    /\ ~IsNone(args.ref)
    /\ "sigma" \in DOMAIN args.kw
    /\ DocFilter(args.cmode) = "TNLMeans"
    /\ trace[Len(trace)].op = "BM3D"
    /\ trace[Len(trace)].ref = args.ref

\* C8 as stated: for every sigma the caller gives, 0 included, both working
\* copies are the Gaussian blur of the input; only for sigma None are they
\* the input itself.
C8_BlurForEverySigma ==
    AfterBlur =>
        /\ args.sigma.type # "None" =>
              (den_a = Filtered(args.clip, "Gaussian") /\ den_b = den_a)
        /\ args.sigma.type = "None" => (den_a = args.clip /\ den_b = args.clip)

\* C8, amended: for every nonzero sigma the caller gives, both working
\* copies are the Gaussian blur of the input with that sigma; for sigma None
\* or zero both are the input itself; den_a and den_b are always the same
\* derivation of the same input.
C8_PreBlur ==
    AfterBlur =>
        LET given == args.sigma.type # "None" /\ args.sigma.num # 0
            g == EvIdx({"quick_resample(bilateral.Gaussian)"})
        IN  /\ den_a = den_b
            /\ given =>
                  /\ den_a = [args.clip EXCEPT !.ops = <<"Gaussian">>]
                  /\ Cardinality(g) = 2
                  /\ \A i \in g :
                        /\ trace[i].input = args.clip
                        /\ trace[i].kw["sigma_num"] = args.sigma.num
                        /\ trace[i].kw["sigma_den"] = args.sigma.den
            /\ ~given => (den_a = args.clip /\ g = {})

C8_Witness ==
    /\ InDm /\ pc = "returned"
    /\ args.sigma = PyFloat(3, 2)
    /\ den_a.ops = <<"Gaussian">>
    /\ den_b.ops = <<"Gaussian">>

OwnErrors == {ErrMvsfunc, ErrQdFormat, ErrCmode, ErrSbsize, ErrHavsfunc}

\* C9: a quick_denoise call that ends in one of its own errors has invoked no
\* chroma and no luma denoiser and returns no clip, the split being the only
\* work done; a call that returns has invoked the selected chroma filter on
\* planes 1 and 2 and BM3D on plane 0.
C9_NoPartialResult ==
    InQd =>
        /\ (pc = "raised" /\ raised[1] \in OwnErrors) =>
              /\ \A i \in DOMAIN trace : trace[i].op = "split"
              /\ Len(trace) <= 1
              /\ \A i \in DOMAIN planes : planes[i].ops = <<>>
              /\ IsNone(ret)
        /\ pc = "returned" =>
              /\ DocFilter(args.cmode) # "none"
              /\ Called(DocFilter(args.cmode), 1)
              /\ Called(DocFilter(args.cmode), 2)
              /\ Called("BM3D", 0)
              /\ raised = <<>>

C9_Witness ==
    /\ InQd /\ pc = "raised"
    /\ raised = <<ErrSbsize>>
    /\ Len(trace) = 1
    /\ trace[1].op = "split"

\* C10: with the required package missing (mvsfunc for quick_denoise,
\* debandshit for detail_mask) the call fails with the missing-dependency
\* error for every clip and cmode; in quick_denoise the format error comes
\* next, then the mode-specific error; a failing call reports exactly one error.
C10_ErrorPrecedence ==
    /\ Len(raised) <= 1
    /\ (pc = "raised") <=> (Len(raised) = 1)
    /\ (InQd /\ Done /\ ~MvsfuncThere) => raised = <<ErrMvsfunc>>
    /\ (InDm /\ Done /\ "debandshit" \notin installed) => raised = <<ErrDebandshit>>
    /\ (InDm /\ Done /\ "debandshit" \in installed /\ args.clip.family = "NONE")
          => raised = <<ErrDmFormat>>
    /\ (InQd /\ Done /\ MvsfuncThere /\ ~FamilyAccepted) => raised = <<ErrQdFormat>>
    /\ (InQd /\ pc = "raised" /\ raised[1] \in {ErrCmode, ErrSbsize, ErrHavsfunc})
          => (MvsfuncThere /\ FamilyAccepted)

C10_Witness ==
    /\ InQd /\ pc = "raised"
    /\ raised = <<ErrMvsfunc>>
    /\ args.clip.family = "NONE"
    /\ DocFilter(args.cmode) = "none"

====
